---- MODULE Spec2Model ----
(***************************************************************************)
(* morfeus.calculators.D3Calculator: per-atom C6(AA) and C8(AA)            *)
(* coefficients from a geometry (J. Chem. Phys. 2010, 132, 154104).        *)
(*                                                                         *)
(* Numbers.  The code works on float64.  The model keeps the shape of      *)
(* that arithmetic on a small scale:                                       *)
(*   - lengths (coordinates, radii, distances) are integers, 0.01 A each;  *)
(*   - a coordination number is an integer count of 1/Unit;                *)
(*   - a C6 value is an integer count of 0.1 au, r2_r4 of 0.1;             *)
(*   - an accumulation (np.sum) rounds every partial sum to MantissaBits   *)
(*     significant bits, ties to even, as float64 does with 53;            *)
(*   - exp() underflows to exactly 0 below 2^-ExpRange, as float64 does    *)
(*     below 2^-1075, and is exactly 1 at 0;                               *)
(*   - 0/0 is NaN, x/0 is Inf, and NaN propagates.                         *)
(* Elementwise operations are deterministic functions of their operands    *)
(* and are computed exactly on this grid.                                  *)
(***************************************************************************)
EXTENDS Integers, Sequences, FiniteSets, TLC

VARIABLES
    pc,                 \* position of the running __init__, or its outcome
    in_elements,        \* argument `elements`
    in_coordinates,     \* argument `coordinates`
    elements,           \* local `elements` after convert_elements
    radii,              \* local `radii`
    atoms,              \* local `atoms`
    k,                  \* position of the current for loop (1-based)
    c6_reference_data,  \* local `c6_reference_data` (a dict, empty before the load)
    c6_coefficients,    \* local list `c6_coefficients`
    c8_coefficients,    \* local list `c8_coefficients`
    self,               \* attributes set on the object so far: name -> the list it refers to
    error,              \* exception raised out of __init__, "none" otherwise
    loads,              \* times the pickled reference data was read by this process
    calls               \* invocations finished by this process

vars == <<pc, in_elements, in_coordinates, elements, radii, atoms, k,
          c6_reference_data, c6_coefficients, c8_coefficients, self, error,
          loads, calls>>

----------------------------------------------------------------------------
(* Bounds of the model *)

MaxAtoms == 3
MaxCalls == 2
MantissaBits == 6
ExpRange == 16

----------------------------------------------------------------------------
(* Special values *)

NaN == -1
Inf == -2
Absent == -3

IsFinite(x) == x >= 0

----------------------------------------------------------------------------
(* Grimme's constants *)

k_1 == 16
k_2 == <<4, 3>>
k_3 == 4

----------------------------------------------------------------------------
(* Small-scale float arithmetic *)

RECURSIVE Pow2(_)
Pow2(n) == IF n = 0 THEN 1 ELSE 2 * Pow2(n - 1)

\* the first integer that needs more than MantissaBits bits
MantissaLimit == Pow2(MantissaBits)

\* spacing of the representable numbers around x >= 0
RECURSIVE Ulp(_)
Ulp(x) == IF x < MantissaLimit THEN 1 ELSE 2 * Ulp(x \div 2)

FlRound(x) ==
    LET u == Ulp(x)
        lo == (x \div u) * u
        rem == x - lo
    IN  IF 2 * rem < u THEN lo
        ELSE IF 2 * rem > u THEN lo + u
        ELSE IF (lo \div u) % 2 = 0 THEN lo ELSE lo + u

FlAdd(a, b) ==
    IF a = NaN \/ b = NaN THEN NaN
    ELSE IF a = Inf \/ b = Inf THEN Inf
    ELSE FlRound(a + b)

FlMul(a, b) ==
    IF a = NaN \/ b = NaN THEN NaN
    ELSE IF a = Inf \/ b = Inf THEN (IF a = 0 \/ b = 0 THEN NaN ELSE Inf)
    ELSE a * b

\* a / b in units of 1: numpy float64 division does not raise on a zero divisor
FlDiv(a, b) ==
    IF a = NaN \/ b = NaN THEN NaN
    ELSE IF b = 0 THEN (IF a = 0 THEN NaN ELSE Inf)
    ELSE IF b = Inf THEN (IF a = Inf THEN NaN ELSE 0)
    ELSE IF a = Inf THEN Inf
    ELSE (2 * a + b) \div (2 * b)

\* np.sum of a one-dimensional array of fewer than 8 elements: a running sum
\* from 0, left to right
RECURSIVE NpSumFrom(_, _, _)
NpSumFrom(xs, i, acc) ==
    IF i > Len(xs) THEN acc ELSE NpSumFrom(xs, i + 1, FlAdd(acc, xs[i]))

NpSum(xs) == NpSumFrom(xs, 1, 0)

\* 1 / (1 + exp(-x)) in 1/Unit, x = num / den with den > 0, rounded to the
\* nearest 1/Unit: entry j is 1000 * logit((2j - 1) / (2 Unit))
SigmoidThresholds ==
    << -4844, -3730, -3203, -2850, -2582, -2364, -2180, -2019,
       -1876, -1747, -1628, -1518, -1416, -1319, -1228, -1141,
       -1057, -977, -900, -825, -752, -681, -612, -544,
       -478, -412, -347, -283, -220, -157, -94, -31,
       31, 94, 157, 220, 283, 347, 412, 478,
       544, 612, 681, 752, 825, 900, 977, 1057,
       1141, 1228, 1319, 1416, 1518, 1628, 1747, 1876,
       2019, 2180, 2364, 2582, 2850, 3203, 3730, 4844 >>

Unit == Len(SigmoidThresholds)

Sigmoid(num, den) ==
    Cardinality({j \in 1..Unit : num * 1000 >= SigmoidThresholds[j] * den})

\* exp(-x) for x = num / den >= 0, as a count of 2^-ExpRange: the largest
\* power of two not above it, and 0 once that is below 2^-ExpRange.
\* 693 / 1000 is ln 2.
ExpNeg(num, den) ==
    LET q == (num * 1000) \div (den * 693)
    IN  IF q > ExpRange THEN 0 ELSE Pow2(ExpRange - q)

RECURSIVE ISqrtIn(_, _, _)
ISqrtIn(q, lo, hi) ==
    IF lo >= hi THEN lo
    ELSE LET mid == (lo + hi + 1) \div 2
         IN  IF mid * mid <= q THEN ISqrtIn(q, mid, hi)
             ELSE ISqrtIn(q, lo, mid - 1)

ISqrt(q) == ISqrtIn(q, 0, 1000)

----------------------------------------------------------------------------
(* Element data: morfeus.helpers and morfeus.data *)

Capitalize(identifier) ==
    CASE identifier = "h" -> "H"
      [] identifier = "he" -> "He"
      [] identifier = "c" -> "C"
      [] OTHER -> identifier

atomic_numbers == [s \in {"H", "He", "C", "Am"} |->
    CASE s = "H" -> 1 [] s = "He" -> 2 [] s = "C" -> 6 [] s = "Am" -> 95]

IsKnownElement(identifier) == Capitalize(identifier) \in DOMAIN atomic_numbers

\* one identifier to its atomic number
Resolve(identifier) == atomic_numbers[Capitalize(identifier)]

convert_elements(ids) == [i \in 1..Len(ids) |-> Resolve(ids[i])]

\* Pyykko covalent radii, 0.01 A
pyykko == [z \in {1, 2, 6, 95} |->
    CASE z = 1 -> 32 [] z = 2 -> 46 [] z = 6 -> 75 [] z = 95 -> 166]

get_radii(es) == [i \in 1..Len(es) |-> pyykko[es[i]]]

\* r2_r4 constants, 0.1
r2_r4 == [z \in {1, 2, 6, 95} |->
    CASE z = 1 -> 20 [] z = 2 -> 16 [] z = 6 -> 31 [] z = 95 -> 70]

\* The unpickled reference data: atomic number -> rows <<c6_ref, cn_1, cn_2>>,
\* c6_ref in 0.1 au, cn in 1/64.  Element 95 has no reference rows.
ReferenceData == [z \in {1, 2, 6} |->
    CASE z = 1 -> << <<30, 58, 58>>, <<47, 58, 0>>, <<47, 0, 58>>, <<76, 0, 0>> >>
      [] z = 2 -> << <<16, 0, 0>> >>
      [] z = 6 -> << <<491, 0, 0>>, <<463, 0, 64>>, <<379, 0, 128>>,
                     <<463, 64, 0>>, <<433, 64, 64>>, <<358, 64, 128>>,
                     <<379, 128, 0>>, <<358, 128, 64>>, <<294, 128, 128>> >>]

EmptyDict == [z \in {} |-> <<>>]

----------------------------------------------------------------------------
(* The steps of D3Calculator.__init__ as functions *)

Min(a, b) == IF a <= b THEN a ELSE b

Max(a, b) == IF a >= b THEN a ELSE b

Abs(x) == IF x < 0 THEN -x ELSE x

\* Atom(element, coordinate, radius, i): no coordination number yet
Atom(element, coordinate, radius, i) ==
    [element |-> element, coordinates |-> coordinate, radius |-> radius,
     index |-> i, coordination_number |-> Absent]

\* [Atom(...) for i, (element, coordinate, radius) in enumerate(zip(...), start=1)]
ZipAtoms(es, cs, rs) ==
    [i \in 1..Min(Len(es), Min(Len(cs), Len(rs))) |-> Atom(es[i], cs[i], rs[i], i)]

\* the filter `if atom is not cn_atom` left out
OtherAtomsAll(n, i) == [j \in 1..n |-> j]

\* only the atoms after cn_atom
OtherAtomsAfter(n, i) == [j \in 1..(n - i) |-> i + j]

\* positions in `atoms` of [atom for atom in atoms if atom is not cn_atom],
\* cn_atom being atoms[i]
OtherAtoms(n, i) == [j \in 1..(n - 1) |-> IF j < i THEN j ELSE j + 1]

\* cdist: Euclidean distance
cdist(a, b) ==
    ISqrt((a[1] - b[1]) * (a[1] - b[1]) + (a[2] - b[2]) * (a[2] - b[2])
          + (a[3] - b[3]) * (a[3] - b[3]))

\* 1 / (1 + exp(-k_1 * (k_2 * (r_i + r_j) / d - 1))), in 1/Unit.
\* d = 0: the quotient is +inf, exp(-inf) is 0 and the term is exactly 1.
CountingTerm(r_i, r_j, d) ==
    IF d = 0 THEN Unit
    ELSE Sigmoid(k_1 * (k_2[1] * (r_i + r_j) - k_2[2] * d), k_2[2] * d)

\* the coordination number of atoms[i]
CoordinationNumber(as, i) ==
    LET others == OtherAtoms(Len(as), i)
        terms == [j \in 1..Len(others) |->
                    CountingTerm(as[i].radius, as[others[j]].radius,
                                 cdist(as[i].coordinates, as[others[j]].coordinates))]
    IN  NpSum(terms)

\* L = exp(-k_3 * r), r = (cn - cn_1)**2 + (cn - cn_2)**2, one per reference row
Weights(reference_data, cn) ==
    [j \in 1..Len(reference_data) |->
        LET cn_1 == reference_data[j][2]
            cn_2 == reference_data[j][3]
            r == (cn - cn_1) * (cn - cn_1) + (cn - cn_2) * (cn - cn_2)
        IN  ExpNeg(k_3 * r, Unit * Unit)]

WeightSum(reference_data, cn) == NpSum(Weights(reference_data, cn))

\* c6 = Z / W
InterpolateC6(reference_data, cn) ==
    LET L == Weights(reference_data, cn)
        W == NpSum(L)
        Z == NpSum([j \in 1..Len(reference_data) |-> FlMul(reference_data[j][1], L[j])])
    IN  FlDiv(Z, W)

\* the square left out
ExtrapolateC8Linear(c6, element) == FlMul(FlMul(3, c6), r2_r4[element])

\* c8 = 3 * c6 * r2_r4[element]**2
ExtrapolateC8(c6, element) ==
    FlMul(FlMul(3, c6), FlMul(r2_r4[element], r2_r4[element]))

\* insert(0, x) in place of append(x)
ListPrepend(list, x) == <<x>> \o list

\* list.append(x)
ListAppend(list, x) == Append(list, x)

----------------------------------------------------------------------------
(* Inputs *)

SeqsUpTo(S, n) == UNION {[1..m -> S] : m \in 0..n}

\* element identifiers: two symbols with reference data (one in lower case),
\* one element without reference data, one unknown symbol
Identifiers == {"H", "he", "Am", "Xx"}

\* coordinates, 0.01 A: corners of a 0.6 A x 0.8 A right triangle
Positions == {<<0, 0, 0>>, <<60, 0, 0>>, <<0, 80, 0>>}

\* for the valid inputs: two elements with reference data, and the corners of
\* a 1.2 A x 1.6 A rectangle
PermIdentifiers == {"H", "C"}

PermPositions == {<<0, 0, 0>>, <<120, 0, 0>>, <<0, 160, 0>>, <<120, 160, 0>>}

IsInjective(f) == \A i, j \in DOMAIN f : f[i] = f[j] => i = j

----------------------------------------------------------------------------
(* The state machine: one action per statement group of __init__ *)

Init ==
    /\ pc = "idle"
    /\ in_elements = <<>>
    /\ in_coordinates = <<>>
    /\ elements = <<>>
    /\ radii = <<>>
    /\ atoms = <<>>
    /\ k = 1
    /\ c6_reference_data = EmptyDict
    /\ c6_coefficients = <<>>
    /\ c8_coefficients = <<>>
    /\ self = EmptyDict
    /\ error = "none"
    /\ loads = 0
    /\ calls = 0

\* D3Calculator(es, cs)
Enter(es, cs) ==
    /\ pc = "idle"
    /\ in_elements' = es
    /\ in_coordinates' = cs
    /\ pc' = "convert"
    /\ UNCHANGED <<elements, radii, atoms, k, c6_reference_data, c6_coefficients,
                   c8_coefficients, self, error, loads, calls>>

\* any lists of up to MaxAtoms identifiers and up to MaxAtoms coordinates
Call ==
    /\ pc = "idle"
    /\ \E es \in SeqsUpTo(Identifiers, MaxAtoms), cs \in SeqsUpTo(Positions, MaxAtoms) :
          Enter(es, cs)

\* known elements at pairwise distinct positions, as many coordinates as elements
CallValid ==
    /\ pc = "idle"
    /\ \E n \in 1..Cardinality(PermPositions) :
          \E es \in [1..n -> PermIdentifiers], cs \in [1..n -> PermPositions] :
              IsInjective(cs) /\ Enter(es, cs)

\* up to one identifier and up to one coordinate
CallSmall ==
    /\ pc = "idle"
    /\ \E es \in SeqsUpTo(Identifiers, 1), cs \in SeqsUpTo(Positions, 1) :
          Enter(es, cs)

\* elements = convert_elements(elements)
ConvertElements ==
    /\ pc = "convert"
    /\ \A i \in 1..Len(in_elements) : IsKnownElement(in_elements[i])
    /\ elements' = convert_elements(in_elements)
    /\ pc' = "radii"
    /\ UNCHANGED <<in_elements, in_coordinates, radii, atoms, k, c6_reference_data,
                   c6_coefficients, c8_coefficients, self, error, loads, calls>>

ConvertElementsRaise ==
    /\ pc = "convert"
    /\ \E i \in 1..Len(in_elements) : ~IsKnownElement(in_elements[i])
    /\ error' = "UnknownElementError"
    /\ pc' = "raised"
    /\ UNCHANGED <<in_elements, in_coordinates, elements, radii, atoms, k,
                   c6_reference_data, c6_coefficients, c8_coefficients, self,
                   loads, calls>>

\* radii = get_radii(elements, radii_type='pyykko')
GetRadii ==
    /\ pc = "radii"
    /\ radii' = get_radii(elements)
    /\ pc' = "build"
    /\ UNCHANGED <<in_elements, in_coordinates, elements, atoms, k, c6_reference_data,
                   c6_coefficients, c8_coefficients, self, error, loads, calls>>

\* obj.name = ref: the attribute refers to the list, it is no copy of it
SetAttr(obj, name, ref) ==
    [a \in DOMAIN obj \cup {name} |-> IF a = name THEN ref ELSE obj[a]]

\* the list an attribute of the object refers to
Attr(name) ==
    CASE self[name] = "atoms" -> atoms
      [] self[name] = "c6_coefficients" -> c6_coefficients
      [] self[name] = "c8_coefficients" -> c8_coefficients

\* atoms = [...]; self._atoms = atoms
BuildAtoms ==
    /\ pc = "build"
    /\ atoms' = ZipAtoms(elements, in_coordinates, radii)
    /\ self' = SetAttr(self, "_atoms", "atoms")
    /\ k' = 1
    /\ pc' = IF Len(atoms') = 0 THEN "load" ELSE "cn"
    /\ UNCHANGED <<in_elements, in_coordinates, elements, radii, c6_reference_data,
                   c6_coefficients, c8_coefficients, error, loads, calls>>

\* the loop left after its first pass: the atoms after the first keep no
\* coordination number
CoordinationStepFirstOnly ==
    /\ pc = "cn"
    /\ atoms' = [atoms EXCEPT ![k].coordination_number = CoordinationNumber(atoms, k)]
    /\ k' = 1
    /\ pc' = "load"
    /\ UNCHANGED <<in_elements, in_coordinates, elements, radii, c6_reference_data,
                   c6_coefficients, c8_coefficients, self, error, loads, calls>>

\* one pass of `for cn_atom in atoms`
CoordinationStep ==
    /\ pc = "cn"
    /\ atoms' = [atoms EXCEPT ![k].coordination_number = CoordinationNumber(atoms, k)]
    /\ k' = IF k = Len(atoms) THEN 1 ELSE k + 1
    /\ pc' = IF k = Len(atoms) THEN "load" ELSE "cn"
    /\ UNCHANGED <<in_elements, in_coordinates, elements, radii, c6_reference_data,
                   c6_coefficients, c8_coefficients, self, error, loads, calls>>

\* c6_reference_data = pickle.load(file); c6_coefficients = []; c8_coefficients = []
LoadReferenceData ==
    /\ pc = "load"
    /\ c6_reference_data' = ReferenceData
    /\ loads' = loads + 1
    /\ c6_coefficients' = <<>>
    /\ c8_coefficients' = <<>>
    /\ k' = 1
    /\ pc' = IF Len(atoms) = 0 THEN "finish" ELSE "interp"
    /\ UNCHANGED <<in_elements, in_coordinates, elements, radii, atoms, self, error,
                   calls>>

\* one pass of `for atom in atoms`
InterpolateStep ==
    /\ pc = "interp"
    /\ atoms[k].element \in DOMAIN c6_reference_data
    /\ LET atom == atoms[k]
           reference_data == c6_reference_data[atom.element]
           cn == atom.coordination_number
           c6 == InterpolateC6(reference_data, cn)
           c8 == ExtrapolateC8(c6, atom.element)
       IN  /\ c6_coefficients' = ListAppend(c6_coefficients, c6)
           /\ c8_coefficients' = ListAppend(c8_coefficients, c8)
    /\ k' = IF k = Len(atoms) THEN 1 ELSE k + 1
    /\ pc' = IF k = Len(atoms) THEN "finish" ELSE "interp"
    /\ UNCHANGED <<in_elements, in_coordinates, elements, radii, atoms,
                   c6_reference_data, self, error, loads, calls>>

\* c6_reference_data[atom.element] on an element without reference rows
InterpolateRaise ==
    /\ pc = "interp"
    /\ atoms[k].element \notin DOMAIN c6_reference_data
    /\ error' = "KeyError"
    /\ pc' = "raised"
    /\ UNCHANGED <<in_elements, in_coordinates, elements, radii, atoms, k,
                   c6_reference_data, c6_coefficients, c8_coefficients, self,
                   loads, calls>>

\* self._atoms = atoms; self.c6_coefficients = ...; self.c8_coefficients = ...
SetAttributes ==
    /\ pc = "finish"
    /\ self' = SetAttr(SetAttr(SetAttr(self, "_atoms", "atoms"),
                               "c6_coefficients", "c6_coefficients"),
                       "c8_coefficients", "c8_coefficients")
    /\ pc' = "returned"
    /\ UNCHANGED <<in_elements, in_coordinates, elements, radii, atoms, k,
                   c6_reference_data, c6_coefficients, c8_coefficients, error,
                   loads, calls>>

\* the invocation is over (returned or raised) and its locals are gone; the
\* process goes on to its next invocation
NextInvocation ==
    /\ pc \in {"returned", "raised"}
    /\ calls + 1 < MaxCalls
    /\ calls' = calls + 1
    /\ pc' = "idle"
    /\ in_elements' = <<>>
    /\ in_coordinates' = <<>>
    /\ elements' = <<>>
    /\ radii' = <<>>
    /\ atoms' = <<>>
    /\ k' = 1
    /\ c6_reference_data' = EmptyDict
    /\ c6_coefficients' = <<>>
    /\ c8_coefficients' = <<>>
    /\ self' = EmptyDict
    /\ error' = "none"
    /\ UNCHANGED loads

\* one invocation on any input
Next ==
    \/ Call
    \/ ConvertElements
    \/ ConvertElementsRaise
    \/ GetRadii
    \/ BuildAtoms
    \/ CoordinationStep
    \/ LoadReferenceData
    \/ InterpolateStep
    \/ InterpolateRaise
    \/ SetAttributes

Spec == Init /\ [][Next]_vars

\* one invocation on a valid input
NextValid ==
    \/ CallValid
    \/ ConvertElements
    \/ GetRadii
    \/ BuildAtoms
    \/ CoordinationStep
    \/ LoadReferenceData
    \/ InterpolateStep
    \/ SetAttributes

SpecValid == Init /\ [][NextValid]_vars

\* successive invocations in one process
NextProcess ==
    \/ CallSmall
    \/ ConvertElements
    \/ ConvertElementsRaise
    \/ GetRadii
    \/ BuildAtoms
    \/ CoordinationStep
    \/ LoadReferenceData
    \/ InterpolateStep
    \/ InterpolateRaise
    \/ SetAttributes
    \/ NextInvocation

SpecProcess == Init /\ [][NextProcess]_vars

----------------------------------------------------------------------------
(* What a calculation is expected to give, from its arguments alone *)

InputAtoms(es, cs) ==
    ZipAtoms(convert_elements(es), cs, get_radii(convert_elements(es)))

RunCN(es, cs) ==
    LET as == InputAtoms(es, cs)
    IN  [i \in 1..Len(as) |-> CoordinationNumber(as, i)]

RunC6(es, cs) ==
    LET as == InputAtoms(es, cs)
    IN  [i \in 1..Len(as) |->
            InterpolateC6(ReferenceData[as[i].element], CoordinationNumber(as, i))]

RunC8(es, cs) ==
    LET as == InputAtoms(es, cs)
        c6 == RunC6(es, cs)
    IN  [i \in 1..Len(as) |-> ExtrapolateC8(c6[i], as[i].element)]

\* the sequence whose entry i is entry p[i] of seq
Permute(seq, p) == [i \in 1..Len(seq) |-> seq[p[i]]]

Matched == Len(in_elements) = Len(in_coordinates)

Exposed(name) == name \in DOMAIN self

----------------------------------------------------------------------------
(* C1: for n >= 1 elements with n coordinates, the returned c6_coefficients
   and c8_coefficients have n entries each, and entry i is the value computed
   from input atom i, its element and its coordination number. *)
C1_OutputInInputOrder ==
    (pc = "returned" /\ Matched /\ Len(in_elements) >= 1) =>
        LET n == Len(in_elements)
            as == InputAtoms(in_elements, in_coordinates)
        IN  /\ Len(Attr("c6_coefficients")) = n
            /\ Len(Attr("c8_coefficients")) = n
            /\ \A i \in 1..n :
                LET z == Resolve(in_elements[i])
                    c6 == InterpolateC6(ReferenceData[z], CoordinationNumber(as, i))
                IN  /\ Attr("c6_coefficients")[i] = c6
                    /\ Attr("c8_coefficients")[i] = ExtrapolateC8(c6, z)

\* three atoms at distinct positions, three different c6 values
C1_Witness ==
    /\ pc = "returned"
    /\ Matched
    /\ Len(in_elements) = 3
    /\ \A i, j \in 1..3 : in_coordinates[i] = in_coordinates[j] => i = j
    /\ \A i \in 1..3 : IsFinite(Attr("c6_coefficients")[i])
    /\ Attr("c6_coefficients")[1] # Attr("c6_coefficients")[2]
    /\ Attr("c6_coefficients")[1] # Attr("c6_coefficients")[3]
    /\ Attr("c6_coefficients")[2] # Attr("c6_coefficients")[3]

(* C2: with a number of element identifiers different from the number of
   coordinate triples, the calculation does not return coefficients. *)
C2_ShapeMismatchRejected ==
    pc = "returned" => Matched

\* no two atoms at the same coordinates
NoCoincidentAtoms ==
    \A i, j \in 1..Len(atoms) : atoms[i].coordinates = atoms[j].coordinates => i = j

(* C3: with two atoms at identical coordinates, the calculation does not
   return coefficients. *)
C3_CoincidentAtomsRejected ==
    pc = "returned" => NoCoincidentAtoms

(* C4: no returned c6 is the quotient by a weight sum W = 0; stated for the
   geometries without coincident atoms, which C3 is about. *)
C4_ZeroWeightSumRejected ==
    (pc = "returned" /\ NoCoincidentAtoms) =>
        \A i \in 1..Len(atoms) :
            WeightSum(c6_reference_data[atoms[i].element],
                      atoms[i].coordination_number) # 0

(* C5: with no elements and no coordinates, the calculation does not return. *)
C5_EmptyInputRejected ==
    (in_elements = <<>> /\ in_coordinates = <<>>) => pc # "returned"

(* C6: a calculation that raised exposes no coefficient sequence; the two
   sequences are exposed together, complete for all atoms, and every entry
   is a number, none a NaN or an infinity.  The last part is stated for the
   geometries without coincident atoms, which C3 is about. *)
C6_AllOrNothing ==
    /\ pc = "raised" => ~Exposed("c6_coefficients") /\ ~Exposed("c8_coefficients")
    /\ Exposed("c6_coefficients") <=> Exposed("c8_coefficients")
    /\ (Exposed("c6_coefficients") /\ NoCoincidentAtoms) =>
        /\ Len(Attr("c6_coefficients")) = Len(atoms)
        /\ Len(Attr("c8_coefficients")) = Len(atoms)
        /\ \A i \in 1..Len(atoms) :
            /\ IsFinite(Attr("c6_coefficients")[i])
            /\ IsFinite(Attr("c8_coefficients")[i])

(* C7 as stated: for every valid input and every permutation p of its atoms,
   the c6 and c8 sequences of the permuted input equal those of the original
   input permuted by p. *)
C7_PermutationEquivariant ==
    pc = "returned" =>
        \A p \in Permutations(1..Len(in_elements)) :
            LET es == Permute(in_elements, p)
                cs == Permute(in_coordinates, p)
            IN  /\ RunC6(es, cs) = Permute(Attr("c6_coefficients"), p)
                /\ RunC8(es, cs) = Permute(Attr("c8_coefficients"), p)

(* C7 as amended: for every valid input of n atoms and every permutation p,
   the coordination number of an atom in the permuted input differs from its
   coordination number in the original input by at most the rounding of the
   n - 2 rounded additions of its neighbour terms, taken in another order,
   and not at all when n <= 3; an atom with the same coordination number has
   the same c6 and c8, so that for n <= 3 the c6 and c8 sequences of the
   permuted input equal those of the original input permuted by p. *)
C7_EquivariantUpToRounding ==
    pc = "returned" =>
        LET n == Len(in_elements)
        IN  \A p \in Permutations(1..n) :
                LET asP == InputAtoms(Permute(in_elements, p), Permute(in_coordinates, p))
                IN  \A i \in 1..n :
                        LET a == atoms[p[i]].coordination_number
                            b == CoordinationNumber(asP, i)
                            c6 == InterpolateC6(ReferenceData[asP[i].element], b)
                            c8 == ExtrapolateC8(c6, asP[i].element)
                        IN  /\ Abs(a - b) <= Max(0, n - 2) * Ulp(Max(a, b))
                            /\ n <= 3 => a = b
                            /\ a = b =>
                                /\ c6 = Attr("c6_coefficients")[p[i]]
                                /\ c8 = Attr("c8_coefficients")[p[i]]

\* four atoms, and an order of them that gives one a different coordination number
C7_Witness ==
    /\ pc = "returned"
    /\ Len(in_elements) = 4
    /\ \E p \in Permutations(1..4) :
        \E i \in 1..4 :
            RunCN(Permute(in_elements, p), Permute(in_coordinates, p))[i]
                # atoms[p[i]].coordination_number

(* C8: every returned c8 is 3 * c6 * r2r4^2, c6 the value returned at the same
   index and r2r4 the constant of that atom's own element. *)
C8_ExtrapolationRelation ==
    pc = "returned" =>
        \A i \in 1..Len(Attr("c8_coefficients")) :
            LET c6 == Attr("c6_coefficients")[i]
                r == r2_r4[Resolve(in_elements[i])]
            IN  Attr("c8_coefficients")[i] = IF c6 = NaN THEN NaN ELSE 3 * c6 * r * r

\* two atoms of different elements, both with a positive c6
C8_Witness ==
    /\ pc = "returned"
    /\ NoCoincidentAtoms
    /\ Len(Attr("c8_coefficients")) >= 2
    /\ Resolve(in_elements[1]) # Resolve(in_elements[2])
    /\ Attr("c6_coefficients")[1] > 0
    /\ Attr("c6_coefficients")[2] > 0

(* C9: an input of exactly one atom gets the coordination number 0 and is no
   error: the calculation raises only for an element that is unknown or has
   no reference data. *)
C9_SingleAtom ==
    (Len(in_elements) = 1 /\ Len(in_coordinates) = 1) =>
        /\ pc \in {"load", "interp", "finish", "returned"} =>
            atoms[1].coordination_number = 0
        /\ pc = "raised" =>
            \/ ~IsKnownElement(in_elements[1])
            \/ Resolve(in_elements[1]) \notin DOMAIN ReferenceData
        /\ pc = "returned" =>
            /\ Len(Attr("c6_coefficients")) = 1
            /\ Attr("_atoms")[1].coordination_number = 0

\* one atom, returned with coordination number 0
C9_Witness ==
    /\ pc = "returned"
    /\ Len(in_elements) = 1
    /\ Len(in_coordinates) = 1
    /\ atoms[1].coordination_number = 0
    /\ IsFinite(Attr("c6_coefficients")[1])

(* C10: over the invocations of one process the reference data is read from
   its resource at most once. *)
C10_LoadedAtMostOnce ==
    loads <= 1

\* atoms[i].coordination_number has been assigned
CNWritten(i) == atoms[i].coordination_number # Absent

\* the coordination number loop is over
CNPhaseOver == pc \in {"load", "interp", "finish", "returned"}

(* C11: within one calculation every atom's coordination_number is written
   exactly once: a pass of the coordination number loop writes the atom it is
   at, which has none yet, and leaves the other atoms' as they are, so that
   the atoms before it are the written ones; once that loop is over every
   atom has its coordination number, so the interpolation loop, the only
   reader, reads none that is absent; and from then on no coordination
   number changes. *)
C11_WrittenOnceBeforeRead ==
    [][/\ pc = "cn" =>
            /\ \A i \in 1..Len(atoms) : CNWritten(i) <=> i < k
            /\ Len(atoms') = Len(atoms)
            /\ atoms'[k].coordination_number # Absent
            /\ \A i \in 1..Len(atoms) :
                    i # k => atoms'[i].coordination_number = atoms[i].coordination_number
       /\ pc # "cn" =>
            \A i \in 1..Len(atoms) :
                CNWritten(i) => /\ i \in 1..Len(atoms')
                                /\ atoms'[i].coordination_number
                                       = atoms[i].coordination_number
       /\ CNPhaseOver => atoms' = atoms /\ \A i \in 1..Len(atoms) : CNWritten(i)
       /\ CNPhaseOver' => \A i \in 1..Len(atoms') : CNWritten(i)'
      ]_vars

\* three atoms, the interpolation loop at the second of them, and the atoms'
\* coordination numbers not all the same
C11_Witness ==
    /\ pc = "interp"
    /\ k = 2
    /\ Len(atoms) = 3
    /\ NoCoincidentAtoms
    /\ \A i \in 1..3 : CNWritten(i)
    /\ atoms[1].coordination_number # atoms[2].coordination_number

====
